---- MODULE Spec2Model ----
(***************************************************************************)
(* Usage-polling and threshold-notification engine of the ClaudeUsage      *)
(* overlay, in its two variants:                                           *)
(*   qt : src/claude_usage_overlay_pyqt5.py                                *)
(*   tk : src/claude_usage_overlay.py                                      *)
(* Utilizations are integers (percent); a notification key                 *)
(* f"{limit_type}_{threshold}" is the pair <<limit_type, threshold>>, which *)
(* the string distinguishes exactly as the pair does.                      *)
(***************************************************************************)
EXTENDS Integers, Sequences, FiniteSets, TLC

\* ------------------------------------------------------------------ bounds
MaxThresholds == 2
FiveHourVals == {60, 95}
WeeklyVals == {60, 75}
SliderVals == {70, 90}
MaxTime == 450
TickVals == {150}
TkVals == {60, 85, 100}
MaxPending == 1
MaxConcurrent == 2
MaxQueued == 1
MaxCompletions == 3
MaxHistory == 3
MaxClock == 1950
MaxTimers == 2
MaxDeferred == 2

\* usage_data before the first successful fetch (Python None).
NoData == [none |-> TRUE]
history_window == 1800
min_span == 120
max_prediction == 18000
Kinds == {"5-hour", "weekly"}
Scenario == <<60, 75, 65, 95, 100>>

VARIABLES
    variant,                     \* "qt" or "tk": which program is running
    usage_data,                  \* self.usage_data: NoData or the last snapshot
    notification_thresholds,     \* config['notification_thresholds']
    notifications_enabled,       \* qt: config['notifications_enabled']
    notified_thresholds,         \* qt: self.notified_thresholds (armed keys)
    initial_thresholds_set,      \* qt: self.initial_thresholds_set
    NOTIFICATIONS_AVAILABLE,     \* tk: plyer was imported
    last_five_hour_utilization,  \* tk: self.last_five_hour_utilization
    last_weekly_utilization,     \* tk: self.last_weekly_utilization
    notification_sent,           \* tk: self.notification_sent, key -> time sent
    now,                         \* time.time(), in seconds since start
    emitted,                     \* notifications delivered by the last step, in order
    evaluated,                   \* history: a threshold evaluation has completed
    session_key,                 \* config['session_key']: None or a key
    api_status,                  \* self.api_status
    last_api_error,              \* self.last_api_error
    polling_active,              \* self.polling_active
    running,                     \* the UI event loop runs (until quit_app)
    auth_error_pending,          \* tk: handle_auth_error calls scheduled with root.after
    th,                          \* the worker threads: poll loops, initial fetches, manual refresh
    update_pending,              \* update_progress calls queued for the UI thread
    login_open,                  \* the login dialog is showing
    start_pending,               \* a start_polling call is queued for the UI thread
    usage_history,               \* qt: self.usage_history, samples <<time, utilization>>
    prediction,                  \* qt: what calculate_prediction returned last
    show_prediction,             \* qt: config show_prediction and not compact_mode
    poll_interval,               \* config['poll_interval'], seconds
    interval_var,                \* tk settings window: interval_var (0 while it is closed)
    cookie_string,               \* config['cookie_string']: absent, None or the key it carries
    sent_cookie,                 \* the sessionKey cookie of the request sent last
    update_timers,               \* tk: update_progress calls pending in root.after
    status_dot,                  \* the status the api_status_dot colour stands for
    status_ui_pending,           \* update_api_status_ui calls queued for the UI thread
    streak,                      \* history: keys notified and not since seen below
    scenario,                    \* history: progress along Scenario, with its emissions
    delays,                      \* history: backoff delays of each thread's current fetch
    fails,                       \* history: failures met by each thread's current fetch
    last_completed,              \* history: outcome of the fetch that returned last
    completions,                 \* history: number of fetches that returned a snapshot
    done_at,                     \* history: per thread, the rank of its returned snapshot
    published_at,                \* history: rank of the snapshot held by usage_data
    published_log,               \* history: ranks of the snapshots published, in order
    evaluated_log                \* history: ranks of the snapshots evaluated, in order

cfgVars == <<variant, notification_thresholds, notifications_enabled>>
qtVars == <<notified_thresholds, initial_thresholds_set>>
tkVars == <<NOTIFICATIONS_AVAILABLE, last_five_hour_utilization, last_weekly_utilization,
            notification_sent>>
uiVars == <<login_open, start_pending>>
fetchVars == <<session_key, api_status, last_api_error, polling_active, running,
               auth_error_pending, th, update_pending, uiVars>>
predVars == <<usage_history, prediction, show_prediction>>
\* What the settings windows, the cookie, the tk timers and the status dot hold; each
\* is followed in the specification that is about it and left alone by the others.
sideVars == <<poll_interval, interval_var, cookie_string, sent_cookie, update_timers,
              status_dot, status_ui_pending>>
trackerVars == <<cfgVars, qtVars, tkVars, now, evaluated, predVars>>
pubHist == <<completions, done_at, published_at, published_log, evaluated_log>>
histVars == <<streak, scenario, delays, fails, last_completed, pubHist>>

vars == <<cfgVars, usage_data, qtVars, tkVars, now, emitted, evaluated, fetchVars, predVars,
          sideVars, histVars>>

\* ------------------------------------------------------------- pure helpers
RECURSIVE Insert(_, _)
Insert(x, s) ==
    IF s = <<>> THEN <<x>>
    ELSE IF x <= Head(s) THEN <<x>> \o s
    ELSE <<Head(s)>> \o Insert(x, Tail(s))

RECURSIVE sorted(_)
sorted(s) == IF s = <<>> THEN <<>> ELSE Insert(Head(s), sorted(Tail(s)))

Range(s) == {s[i] : i \in 1..Len(s)}

Key(limit_type, threshold) == <<limit_type, threshold>>

RemoveAt(s, idx) == [i \in 1..(Len(s) - 1) |-> IF i < idx THEN s[i] ELSE s[i + 1]]

\* ------------------------------------------------- qt threshold tracker
\* Mutant of CheckLoop: the armed test is dropped, so every evaluation at or above
\* a threshold notifies.
RECURSIVE CheckLoopAlwaysNotify(_, _, _, _, _)
CheckLoopAlwaysNotify(ths, utilization, limit_type, initial_set, st) ==
    IF ths = <<>> THEN st
    ELSE LET threshold == Head(ths)
             key == <<limit_type, threshold>>
         IN  IF utilization >= threshold
             THEN CheckLoopAlwaysNotify(Tail(ths), utilization, limit_type, initial_set,
                     [armed |-> st.armed \cup {key},
                      sent |-> IF initial_set THEN Append(st.sent, key) ELSE st.sent])
             ELSE CheckLoopAlwaysNotify(Tail(ths), utilization, limit_type, initial_set,
                     [armed |-> st.armed \ {key}, sent |-> st.sent])

\* Mutant of CheckLoop: one armed flag per threshold, shared by both kinds.
RECURSIVE CheckLoopSharedKinds(_, _, _, _, _)
CheckLoopSharedKinds(ths, utilization, limit_type, initial_set, st) ==
    IF ths = <<>> THEN st
    ELSE LET threshold == Head(ths)
             key == <<limit_type, threshold>>
             both == {<<"5-hour", threshold>>, <<"weekly", threshold>>}
         IN  IF utilization >= threshold /\ key \notin st.armed
             THEN CheckLoopSharedKinds(Tail(ths), utilization, limit_type, initial_set,
                     [armed |-> st.armed \cup both,
                      sent |-> IF initial_set THEN Append(st.sent, key) ELSE st.sent])
             ELSE IF utilization < threshold /\ key \in st.armed
             THEN CheckLoopSharedKinds(Tail(ths), utilization, limit_type, initial_set,
                     [armed |-> st.armed \ both, sent |-> st.sent])
             ELSE CheckLoopSharedKinds(Tail(ths), utilization, limit_type, initial_set, st)

\* Mutant of CheckLoop: a threshold is never disarmed.
RECURSIVE CheckLoopNoDisarm(_, _, _, _, _)
CheckLoopNoDisarm(ths, utilization, limit_type, initial_set, st) ==
    IF ths = <<>> THEN st
    ELSE LET threshold == Head(ths)
             key == <<limit_type, threshold>>
         IN  IF utilization >= threshold /\ key \notin st.armed
             THEN CheckLoopNoDisarm(Tail(ths), utilization, limit_type, initial_set,
                     [armed |-> st.armed \cup {key},
                      sent |-> IF initial_set THEN Append(st.sent, key) ELSE st.sent])
             ELSE CheckLoopNoDisarm(Tail(ths), utilization, limit_type, initial_set, st)

\* The for-loop of check_and_notify over sorted(thresholds): st carries the armed
\* set and the notifications sent so far.
RECURSIVE CheckLoop(_, _, _, _, _)
CheckLoop(ths, utilization, limit_type, initial_set, st) ==
    IF ths = <<>> THEN st
    ELSE LET threshold == Head(ths)
             key == Key(limit_type, threshold)
         IN  IF utilization >= threshold /\ key \notin st.armed
             THEN CheckLoop(Tail(ths), utilization, limit_type, initial_set,
                     [armed |-> st.armed \cup {key},
                      sent |-> IF initial_set THEN Append(st.sent, key) ELSE st.sent])
             ELSE IF utilization < threshold /\ key \in st.armed
             THEN CheckLoop(Tail(ths), utilization, limit_type, initial_set,
                     [armed |-> st.armed \ {key}, sent |-> st.sent])
             ELSE CheckLoop(Tail(ths), utilization, limit_type, initial_set, st)

check_and_notify(utilization, limit_type, st) ==
    IF ~notifications_enabled THEN st
    ELSE CheckLoop(sorted(notification_thresholds), utilization, limit_type,
                   initial_thresholds_set, st)

\* calculate_prediction: samples older than 30 minutes are dropped, the reading is
\* appended, and the time to 100% is extrapolated from the oldest sample kept. The
\* quotient remaining_usage / rate is kept exact, as num / den.
NoPrediction == [none |-> TRUE]

\* Mutant of Pruned: a sample exactly 30 minutes old is kept.
PrunedInclusive(history, t) == SelectSeq(history, LAMBDA sample : sample[1] >= t - history_window)

Pruned(history, t) == SelectSeq(history, LAMBDA sample : sample[1] > t - history_window)

HistoryAfter(history, t, current_utilization) ==
    Append(Pruned(history, t), <<t, current_utilization>>)

\* Mutant of calculate_prediction: the rate is taken from the oldest sample ever
\* recorded, pruned or not.
calculate_prediction_unpruned(history, t, current_utilization) ==
    LET kept == Append(history, <<t, current_utilization>>)
        time_diff == t - kept[1][1]
        usage_diff == current_utilization - kept[1][2]
        remaining_usage == 100 - current_utilization
    IN  IF Len(kept) < 2 THEN NoPrediction
        ELSE IF time_diff < min_span THEN NoPrediction
        ELSE IF usage_diff <= 0 THEN NoPrediction
        ELSE IF remaining_usage <= 0 THEN NoPrediction
        ELSE IF remaining_usage * time_diff > max_prediction * usage_diff THEN NoPrediction
        ELSE [num |-> remaining_usage * time_diff, den |-> usage_diff]

\* Mutant of calculate_prediction: no upper limit on the extrapolation.
calculate_prediction_no_cap(history, t, current_utilization) ==
    LET kept == HistoryAfter(history, t, current_utilization)
        time_diff == t - kept[1][1]
        usage_diff == current_utilization - kept[1][2]
        remaining_usage == 100 - current_utilization
    IN  IF Len(kept) < 2 THEN NoPrediction
        ELSE IF time_diff < min_span THEN NoPrediction
        ELSE IF usage_diff <= 0 THEN NoPrediction
        ELSE IF remaining_usage <= 0 THEN NoPrediction
        ELSE [num |-> remaining_usage * time_diff, den |-> usage_diff]

calculate_prediction(history, t, current_utilization) ==
    LET kept == HistoryAfter(history, t, current_utilization)
        time_diff == t - kept[1][1]
        usage_diff == current_utilization - kept[1][2]
        remaining_usage == 100 - current_utilization
    IN  IF Len(kept) < 2 THEN NoPrediction
        ELSE IF time_diff < min_span THEN NoPrediction
        ELSE IF usage_diff <= 0 THEN NoPrediction
        ELSE IF remaining_usage <= 0 THEN NoPrediction
        ELSE IF remaining_usage * time_diff > max_prediction * usage_diff THEN NoPrediction
        ELSE [num |-> remaining_usage * time_diff, den |-> usage_diff]

\* update_progress of the qt variant: both kinds are evaluated, five-hour first,
\* then notifications are enabled for the later evaluated.
QtEvaluated ==
    check_and_notify(usage_data.seven_day, "weekly",
        check_and_notify(usage_data.five_hour, "5-hour",
            [armed |-> notified_thresholds, sent |-> <<>>]))

\* The body of update_progress: the prediction (unless hidden), then the thresholds.
UpdateProgressQt ==
    /\ IF show_prediction
       THEN /\ usage_history' = HistoryAfter(usage_history, now, usage_data.five_hour)
            /\ prediction' = calculate_prediction(usage_history, now, usage_data.five_hour)
       ELSE UNCHANGED <<usage_history, prediction>>
    /\ notified_thresholds' = QtEvaluated.armed
    /\ emitted' = QtEvaluated.sent
    /\ initial_thresholds_set' = TRUE
    /\ evaluated' = TRUE
    /\ UNCHANGED <<cfgVars, usage_data, tkVars, now, show_prediction>>

update_progress_qt ==
    /\ variant = "qt"
    /\ usage_data # NoData
    /\ UpdateProgressQt
    /\ UNCHANGED fetchVars

\* A fetch published a snapshot: self.usage_data = data.
Publish(u5, u7) ==
    /\ usage_data' = [five_hour |-> u5, seven_day |-> u7]
    /\ emitted' = <<>>
    /\ UNCHANGED <<cfgVars, qtVars, tkVars, now, evaluated, fetchVars, predVars>>

\* ------------------------------------------------- qt threshold settings
\* Mutant of slider_update: only the five-hour key of the old value is discarded.
slider_update_keeps_weekly(idx, val) ==
    /\ variant = "qt"
    /\ idx \in 1..Len(notification_thresholds)
    /\ val # notification_thresholds[idx]
    /\ notification_thresholds' = [notification_thresholds EXCEPT ![idx] = val]
    /\ notified_thresholds' =
           notified_thresholds \ {<<"5-hour", notification_thresholds[idx]>>}
    /\ emitted' = <<>>
    /\ UNCHANGED <<variant, usage_data, notifications_enabled, initial_thresholds_set,
                   tkVars, now, evaluated, fetchVars, predVars>>

\* refresh_thresholds.make_update_func.update: slider idx moved to val.
slider_update(idx, val) ==
    /\ variant = "qt"
    /\ idx \in 1..Len(notification_thresholds)
    /\ val # notification_thresholds[idx]
    /\ LET old_val == notification_thresholds[idx]
       IN  /\ notification_thresholds' = [notification_thresholds EXCEPT ![idx] = val]
           /\ notified_thresholds' =
                  notified_thresholds \ {Key("5-hour", old_val), Key("weekly", old_val)}
    /\ emitted' = <<>>
    /\ UNCHANGED <<variant, usage_data, notifications_enabled, initial_thresholds_set,
                   tkVars, now, evaluated, fetchVars, predVars>>

\* Mutant of remove_threshold: the armed keys of the removed value are kept.
remove_threshold_keeps_keys(idx) ==
    /\ variant = "qt"
    /\ idx \in 1..Len(notification_thresholds)
    /\ notification_thresholds' = RemoveAt(notification_thresholds, idx)
    /\ emitted' = <<>>
    /\ UNCHANGED <<variant, usage_data, notifications_enabled, qtVars, tkVars, now,
                   evaluated, fetchVars, predVars>>

remove_threshold(idx) ==
    /\ variant = "qt"
    /\ idx \in 1..Len(notification_thresholds)
    /\ LET old_val == notification_thresholds[idx]
       IN  /\ notification_thresholds' = RemoveAt(notification_thresholds, idx)
           /\ notified_thresholds' =
                  notified_thresholds \ {Key("5-hour", old_val), Key("weekly", old_val)}
    /\ emitted' = <<>>
    /\ UNCHANGED <<variant, usage_data, notifications_enabled, initial_thresholds_set,
                   tkVars, now, evaluated, fetchVars, predVars>>

\* The two while-loops of add_threshold: the first value from start, in steps of
\* step, that is unused or above 100.
RECURSIVE FirstFree(_, _, _)
FirstFree(new_val, step, thresholds) ==
    IF new_val \in Range(thresholds) /\ new_val <= 100
    THEN FirstFree(new_val + step, step, thresholds)
    ELSE new_val

NewThreshold(thresholds) ==
    LET by5 == FirstFree(50, 5, thresholds)
    IN  IF by5 > 100 THEN FirstFree(1, 1, thresholds) ELSE by5

add_threshold ==
    /\ variant = "qt"
    /\ Len(notification_thresholds) < MaxThresholds
    /\ NewThreshold(notification_thresholds) <= 100
    /\ notification_thresholds' =
           Append(notification_thresholds, NewThreshold(notification_thresholds))
    /\ emitted' = <<>>
    /\ UNCHANGED <<variant, usage_data, notifications_enabled, qtVars, tkVars, now,
                   evaluated, fetchVars, predVars>>

update_notif_visibility(state) ==
    /\ variant = "qt"
    /\ state # notifications_enabled
    /\ notifications_enabled' = state
    /\ emitted' = <<>>
    /\ UNCHANGED <<variant, usage_data, notification_thresholds, qtVars, tkVars, now,
                   evaluated, fetchVars, predVars>>

\* ------------------------------------------------- tk threshold tracker
notification_cooldown == 300

\* Mutant of send_notification_tk: no cooldown.
send_notification_tk_no_cooldown(limit_type, threshold, st) ==
    LET key == <<limit_type, threshold>>
    IN  IF ~NOTIFICATIONS_AVAILABLE THEN st
        ELSE [sent_at |-> [k \in DOMAIN st.sent_at \cup {key} |->
                              IF k = key THEN now ELSE st.sent_at[k]],
              sent |-> Append(st.sent, key)]

\* send_notification of the tk variant: st carries notification_sent and the
\* notifications delivered so far.
send_notification_tk(limit_type, threshold, st) ==
    LET key == Key(limit_type, threshold)
    IN  IF ~NOTIFICATIONS_AVAILABLE THEN st
        ELSE IF key \in DOMAIN st.sent_at /\ now - st.sent_at[key] < notification_cooldown
        THEN st
        ELSE [sent_at |-> [k \in DOMAIN st.sent_at \cup {key} |->
                              IF k = key THEN now ELSE st.sent_at[k]],
              sent |-> Append(st.sent, key)]

\* The for-loop of check_and_send_notifications over sorted(thresholds).
RECURSIVE SendLoop(_, _, _, _, _)
SendLoop(ths, utilization, limit_type, prev_util, st) ==
    IF ths = <<>> THEN st
    ELSE LET threshold == Head(ths)
         IN  IF utilization >= threshold /\ prev_util < threshold
             THEN SendLoop(Tail(ths), utilization, limit_type, prev_util,
                           send_notification_tk(limit_type, threshold, st))
             ELSE SendLoop(Tail(ths), utilization, limit_type, prev_util, st)

check_and_send_notifications(utilization, limit_type, st) ==
    SendLoop(sorted(notification_thresholds), utilization, limit_type,
             IF limit_type = "five_hour" THEN last_five_hour_utilization
             ELSE last_weekly_utilization,
             st)

TkEvaluated ==
    IF NOTIFICATIONS_AVAILABLE
    THEN check_and_send_notifications(usage_data.seven_day, "weekly",
            check_and_send_notifications(usage_data.five_hour, "five_hour",
                [sent_at |-> notification_sent, sent |-> <<>>]))
    ELSE [sent_at |-> notification_sent, sent |-> <<>>]

UpdateProgressTk ==
    /\ notification_sent' = TkEvaluated.sent_at
    /\ emitted' = TkEvaluated.sent
    /\ last_five_hour_utilization' = usage_data.five_hour
    /\ last_weekly_utilization' = usage_data.seven_day
    /\ evaluated' = TRUE
    /\ UNCHANGED <<cfgVars, usage_data, qtVars, NOTIFICATIONS_AVAILABLE, now, predVars>>

update_progress_tk ==
    /\ variant = "tk"
    /\ usage_data # NoData
    /\ UpdateProgressTk
    /\ UNCHANGED fetchVars

\* Time passes.
Tick(d) ==
    /\ now + d <= MaxTime
    /\ now' = now + d
    /\ emitted' = <<>>
    /\ UNCHANGED <<cfgVars, usage_data, qtVars, tkVars, evaluated, fetchVars, predVars>>

\* ------------------------------------------------------ fetch client
max_retries == 3
base_delay == 2

None == "None"
\* Each start_polling starts a polling loop and an initial fetch; two starts are
\* followed. Manual refreshes are followed one at a time.
Loops == {"poll", "poll2"}
Initials == {"initial", "initial2"}
Threads == Loops \cup Initials \cup {"manual"}
Keys == {"sk1"}
FreshKeys == {"sk2"}
Snapshots == {[five_hour |-> 60, seven_day |-> 60], [five_hour |-> 95, seven_day |-> 75]}
\* What the transport answers to the organization-list request: a status code ("200"
\* with a non-empty list), "Empty" (200 with an empty list) or an exception.
OrgAnswers == {"200", "401", "429", "500", "Empty", "Timeout", "ConnectionError", "Exception"}
\* ... and to the usage request: "BadJson" is a 200 whose body does not parse.
UsageAnswers == {"200", "401", "429", "500", "BadJson", "Timeout", "ConnectionError", "Exception"}
Exceptions == {"Timeout", "ConnectionError", "Exception", "BadJson"}

RECURSIVE Pow2(_)
Pow2(n) == IF n = 0 THEN 1 ELSE 2 * Pow2(n - 1)

Off == [pc |-> "off", attempt |-> 0, delay |-> 0, data |-> NoData, outcome |-> "none"]
InFlight(pc, retry_attempt) == [Off EXCEPT !.pc = pc, !.attempt = retry_attempt]
Sleeping(retry_attempt, delay) ==
    [Off EXCEPT !.pc = "backoff", !.attempt = retry_attempt, !.delay = delay]
Returned(outcome, data) == [Off EXCEPT !.pc = "returned", !.data = data, !.outcome = outcome]

\* The three things a step of fetch_usage_data settles: the thread's next position,
\* self.api_status and self.last_api_error.
Settle(t, next, status, error) ==
    /\ th' = [th EXCEPT ![t] = next]
    /\ api_status' = status
    /\ last_api_error' = error

\* Mutant of FetchEntry: the session key is not looked at.
FetchEntryNoKeyCheck(t, retry_attempt) ==
    /\ Settle(t, InFlight("org", retry_attempt),
              IF retry_attempt > 0 THEN "warning" ELSE api_status, last_api_error)
    /\ UNCHANGED auth_error_pending

\* fetch_usage_data(retry_attempt) up to its first request: the session-key check,
\* the 'warning' status of a retry, and the organization-list request going out.
FetchEntry(t, retry_attempt) ==
    /\ IF session_key = None
       THEN Settle(t, Returned("NoCredential", NoData), "error", "No session key")
       ELSE Settle(t, InFlight("org", retry_attempt),
                   IF retry_attempt > 0 THEN "warning" ELSE api_status, last_api_error)
    /\ UNCHANGED auth_error_pending

\* Mutant of RetryOrFail: the terminal path forgets to set the status.
RetryOrFailKeepsStatus(t, delay, retry_status, retry_error, final_error) ==
    IF th[t].attempt < max_retries
    THEN Settle(t, Sleeping(th[t].attempt, delay), retry_status, retry_error)
    ELSE Settle(t, Returned("Exhausted", NoData), retry_status, final_error)

\* Mutant of RetryOrFail: one retry more.
RetryOrFailOneMore(t, delay, retry_status, retry_error, final_error) ==
    IF th[t].attempt < max_retries + 1
    THEN Settle(t, Sleeping(th[t].attempt, delay), retry_status, retry_error)
    ELSE Settle(t, Returned("Exhausted", NoData), "error", final_error)

\* Mutant of RetryOrFail: one retry fewer.
RetryOrFailEarly(t, delay, retry_status, retry_error, final_error) ==
    IF th[t].attempt < max_retries - 1
    THEN Settle(t, Sleeping(th[t].attempt, delay), retry_status, retry_error)
    ELSE Settle(t, Returned("Exhausted", NoData), "error", final_error)

\* if retry_attempt < max_retries: sleep(delay), then the recursive call; else the
\* terminal error.
RetryOrFail(t, delay, retry_status, retry_error, final_error) ==
    IF th[t].attempt < max_retries
    THEN Settle(t, Sleeping(th[t].attempt, delay), retry_status, retry_error)
    ELSE Settle(t, Returned("Exhausted", NoData), "error", final_error)

StandardDelay(t) == base_delay * Pow2(th[t].attempt)

RateLimitDelay(t) == base_delay * Pow2(th[t].attempt) * 2

\* The tk variant after a request has failed with answer r; org_status is the status
\* code of the organization-list response, which the error text quotes.
FailTk(t, r, org_status) ==
    IF r = "Timeout"
    THEN RetryOrFail(t, StandardDelay(t), "warning", "Timeout", "Timeout")
    ELSE IF r = "ConnectionError"
    THEN RetryOrFail(t, StandardDelay(t), "warning", "No connection", "No connection")
    ELSE IF r \in Exceptions
    THEN RetryOrFail(t, StandardDelay(t), "warning", "Exception", "Exception")
    ELSE IF org_status = "429"
    THEN RetryOrFail(t, RateLimitDelay(t), "warning", "Rate limited (429)",
                     "Failed after 3 retries")
    ELSE RetryOrFail(t, StandardDelay(t), "warning",
                     "HTTP " \o org_status,
                     "Failed after 3 retries")

\* The qt variant after a request has failed: every failure is retried alike, and
\* only the terminal path touches the status.
FailQt(t, status_now, error_now) ==
    RetryOrFail(t, StandardDelay(t), status_now, error_now, error_now)

\* The organization-list response arrives.
OrgResponse(t, r) ==
    /\ th[t].pc = "org"
    /\ IF r = "200"
       THEN Settle(t, InFlight("usage", th[t].attempt), api_status, last_api_error)
               /\ UNCHANGED auth_error_pending
       ELSE IF variant = "tk" /\ r = "401"
       THEN /\ auth_error_pending < MaxPending
            /\ Settle(t, Returned("AuthExpired", NoData), "error", "Session expired (401)")
            /\ auth_error_pending' = auth_error_pending + 1
       ELSE /\ IF variant = "tk"
               THEN FailTk(t, r, IF r \in Exceptions \cup {"Empty"} THEN "200" ELSE r)
               ELSE FailQt(t, api_status, last_api_error)
            /\ UNCHANGED auth_error_pending
    /\ UNCHANGED <<session_key, polling_active, running, usage_data, update_pending, uiVars>>

\* The usage response arrives; data is the document a 200 carries.
UsageResponse(t, r, data) ==
    /\ th[t].pc = "usage"
    /\ IF r = "200"
       THEN Settle(t, Returned("Success", data), "ok", None)
       ELSE IF variant = "tk"
       THEN FailTk(t, r, "200")
       ELSE IF r = "BadJson"
       THEN FailQt(t, "ok", None)
       ELSE FailQt(t, api_status, last_api_error)
    /\ UNCHANGED <<session_key, polling_active, running, usage_data, auth_error_pending,
                   update_pending, uiVars>>

\* The backoff sleep ends and fetch_usage_data(retry_attempt + 1) is entered.
Wake(t) ==
    /\ th[t].pc = "backoff"
    /\ FetchEntry(t, th[t].attempt + 1)
    /\ UNCHANGED <<session_key, polling_active, running, usage_data, update_pending, uiVars>>

\* Mutant of poll_loop_check: the loop does not look at polling_active.
poll_loop_check_ignores_flag(t) ==
    /\ t \in Loops
    /\ th[t].pc \in {"spawned", "sleep"}
    /\ FetchEntry(t, 0)
    /\ UNCHANGED <<session_key, polling_active, running, usage_data, update_pending, uiVars>>

\* Mutant of poll_loop_check: the loop also ends when no session key is stored.
poll_loop_check_needs_key(t) ==
    /\ t \in Loops
    /\ th[t].pc \in {"spawned", "sleep"}
    /\ IF polling_active /\ session_key # None
       THEN FetchEntry(t, 0)
       ELSE /\ th' = [th EXCEPT ![t] = [Off EXCEPT !.pc = "exited"]]
            /\ UNCHANGED <<api_status, last_api_error, auth_error_pending>>
    /\ UNCHANGED <<session_key, polling_active, running, usage_data, update_pending, uiVars>>

\* poll_loop / polling_loop: the thread starts, or its sleep ends, and the loop
\* condition is evaluated; if it holds the next fetch is entered.
poll_loop_check(t) ==
    /\ t \in Loops
    /\ th[t].pc \in {"spawned", "sleep"}
    /\ IF polling_active
       THEN FetchEntry(t, 0)
       ELSE /\ th' = [th EXCEPT ![t] = [Off EXCEPT !.pc = "exited"]]
            /\ UNCHANGED <<api_status, last_api_error, auth_error_pending>>
    /\ UNCHANGED <<session_key, polling_active, running, usage_data, update_pending, uiVars>>

\* initial_fetch after its half second, and refresh: the fetch is entered.
begin_fetch(t) ==
    /\ t \in Initials \cup {"manual"}
    /\ th[t].pc = "spawned"
    /\ FetchEntry(t, 0)
    /\ UNCHANGED <<session_key, polling_active, running, usage_data, update_pending, uiVars>>

\* Mutant of publish: a polling loop ends when its fetch brought no snapshot.
publish_stops_on_failure(t) ==
    /\ th[t].pc = "returned"
    /\ usage_data' = IF th[t].data # NoData THEN th[t].data ELSE usage_data
    /\ update_pending' = IF th[t].data # NoData /\ update_pending < MaxQueued
                         THEN update_pending + 1 ELSE update_pending
    /\ th' = [th EXCEPT ![t] = IF t \in Loops /\ th[t].data # NoData
                               THEN [Off EXCEPT !.pc = "sleep"]
                               ELSE IF t \in Loops THEN [Off EXCEPT !.pc = "exited"] ELSE Off]
    /\ UNCHANGED <<session_key, api_status, last_api_error, polling_active, running,
                   auth_error_pending, uiVars>>

\* if data: self.usage_data = data and update_progress is queued for the UI thread
\* (queued calls are counted up to MaxQueued); the poll loop then sleeps, the
\* others end.
publish(t) ==
    /\ th[t].pc = "returned"
    /\ usage_data' = IF th[t].data # NoData THEN th[t].data ELSE usage_data
    /\ update_pending' = IF th[t].data # NoData /\ update_pending < MaxQueued
                         THEN update_pending + 1 ELSE update_pending
    /\ th' = [th EXCEPT ![t] = IF t \in Loops THEN [Off EXCEPT !.pc = "sleep"] ELSE Off]
    /\ UNCHANGED <<session_key, api_status, last_api_error, polling_active, running,
                   auth_error_pending, uiVars>>

\* The UI thread runs a queued update_progress. The tk one queues itself again.
scheduled_update_progress ==
    /\ running
    /\ update_pending > 0
    /\ usage_data # NoData
    /\ IF variant = "qt"
       THEN UpdateProgressQt /\ update_pending' = update_pending - 1
       ELSE UpdateProgressTk /\ UNCHANGED update_pending
    /\ UNCHANGED <<session_key, api_status, last_api_error, polling_active, running,
                   auth_error_pending, th, uiVars>>

manual_refresh ==
    /\ running
    /\ th["manual"].pc = "off"
    /\ th' = [th EXCEPT !["manual"] = [Off EXCEPT !.pc = "spawned"]]
    /\ UNCHANGED <<session_key, api_status, last_api_error, polling_active, running,
                   auth_error_pending, usage_data, update_pending, uiVars>>

quit_app ==
    /\ running
    /\ polling_active' = FALSE
    /\ running' = FALSE
    /\ UNCHANGED <<session_key, api_status, last_api_error, auth_error_pending, th,
                   usage_data, update_pending, uiVars>>

\* qt settings: on_session_change (a key or nothing typed) and clear_key.
on_session_change(key) ==
    /\ variant = "qt"
    /\ running
    /\ key # session_key
    /\ session_key' = key
    /\ UNCHANGED <<api_status, last_api_error, polling_active, running,
                   auth_error_pending, th, usage_data, update_pending, uiVars>>

\* tk settings: logout clears the session and leaves the main loop.
logout ==
    /\ variant = "tk"
    /\ running
    /\ session_key' = None
    /\ running' = FALSE
    /\ UNCHANGED <<api_status, last_api_error, polling_active, auth_error_pending, th,
                   usage_data, update_pending, uiVars>>

\* tk: the scheduled handle_auth_error runs; accept is the user's answer to "log in
\* again?" (or auto_refresh_session).
handle_auth_error(accept) ==
    /\ variant = "tk"
    /\ running
    /\ auth_error_pending > 0
    /\ auth_error_pending' = auth_error_pending - 1
    /\ LET st == send_notification_tk("auth", 0, [sent_at |-> notification_sent, sent |-> <<>>])
       IN  notification_sent' = st.sent_at /\ emitted' = st.sent
    /\ session_key' = IF accept THEN None ELSE session_key
    /\ login_open' = (accept \/ login_open)
    /\ UNCHANGED <<api_status, last_api_error, polling_active, running, th, usage_data,
                   cfgVars, qtVars, NOTIFICATIONS_AVAILABLE, last_five_hour_utilization,
                   last_weekly_utilization, now, evaluated, update_pending, start_pending,
                   predVars>>

\* The login dialog obtained a session key: on_signin (qt), automated_browser_login
\* (tk). The key is stored, the dialog closes and start_polling is queued.
login_success(key) ==
    /\ running
    /\ login_open
    /\ session_key' = key
    /\ login_open' = FALSE
    /\ start_pending' = TRUE
    /\ UNCHANGED <<api_status, last_api_error, polling_active, running, auth_error_pending,
                   th, usage_data, update_pending>>

\* The login dialog is closed without a login: with no session key stored the
\* program ends (quit_app in qt, root.quit() in tk).
login_cancel ==
    /\ running
    /\ login_open
    /\ login_open' = FALSE
    /\ running' = (session_key # None)
    /\ polling_active' = IF session_key = None /\ variant = "qt" THEN FALSE ELSE polling_active
    /\ UNCHANGED <<session_key, api_status, last_api_error, auth_error_pending, th,
                   usage_data, update_pending, start_pending>>

FreeLoop == CHOOSE l \in Loops :
               /\ th[l].pc \in {"off", "exited"}
               /\ \A k \in Loops : th[k].pc \in {"off", "exited"} => l = "poll" \/ k # "poll"
FreeInitial == CHOOSE i \in Initials :
                  /\ th[i].pc = "off"
                  /\ \A k \in Initials : th[k].pc = "off" => i = "initial" \/ k # "initial"

\* The queued start_polling runs: the flag is set, a polling thread and an initial
\* fetch are started.
start_polling ==
    /\ running
    /\ start_pending
    /\ \E l \in Loops : th[l].pc \in {"off", "exited"}
    /\ \E i \in Initials : th[i].pc = "off"
    /\ start_pending' = FALSE
    /\ polling_active' = TRUE
    /\ th' = [th EXCEPT ![FreeLoop] = [Off EXCEPT !.pc = "spawned"],
                        ![FreeInitial] = [Off EXCEPT !.pc = "spawned"]]
    /\ UNCHANGED <<session_key, api_status, last_api_error, running, auth_error_pending,
                   usage_data, update_pending, login_open>>

FetchFrame == emitted' = <<>> /\ UNCHANGED trackerVars

\* ------------------------------------------------------ status dot
\* update_api_status_ui, run by the UI thread for a queued call: the dot takes the
\* colour of the status of the moment.
update_api_status_ui ==
    /\ running
    /\ status_ui_pending > 0
    /\ status_ui_pending' = status_ui_pending - 1
    /\ status_dot' = api_status
    /\ emitted' = <<>>
    /\ UNCHANGED <<cfgVars, usage_data, qtVars, tkVars, now, evaluated, fetchVars, predVars,
                   poll_interval, interval_var, cookie_string, sent_cookie, update_timers,
                   histVars>>

\* The calls of QTimer.singleShot(0, self.update_api_status_ui) (tk: root.after) a
\* step of thread t's fetch makes, r being the answer it received: one on entering
\* a retry, one on success (in qt before the body is parsed), one on the 401 of tk,
\* one on the terminal error, except, in qt, when the last failure was an exception;
\* none on the no-credential return.
UiCallsQueued(t, r) ==
    IF th[t].pc \in {"spawned", "sleep", "backoff"}
    THEN IF th'[t].pc = "org" /\ th'[t].attempt > 0 THEN 1 ELSE 0
    ELSE IF th[t].pc = "org"
    THEN IF r = "200" THEN 0
         ELSE IF variant = "tk" THEN IF th'[t].pc = "returned" THEN 1 ELSE 0
         ELSE IF th'[t].pc = "returned" /\ r \notin Exceptions THEN 1 ELSE 0
    ELSE IF th[t].pc = "usage"
    THEN IF r = "200" THEN 1
         ELSE IF variant = "tk" THEN IF th'[t].pc = "returned" THEN 1 ELSE 0
         ELSE IF r = "BadJson" THEN 1
         ELSE IF th'[t].pc = "returned" /\ r \notin Exceptions THEN 1 ELSE 0
    ELSE 0

\* ------------------------------------------------------ settings windows
\* What a settings step leaves alone (the threshold list and the interval apart).
SettingsFrame ==
    /\ emitted' = <<>>
    /\ UNCHANGED <<variant, notifications_enabled, usage_data, qtVars, tkVars, now, evaluated,
                   fetchVars, predVars, cookie_string, sent_cookie, update_timers, status_dot,
                   status_ui_pending, histVars>>

\* tk show_settings: interval_var = tk.IntVar(value=config['poll_interval']).
show_settings ==
    /\ variant = "tk"
    /\ running
    /\ interval_var = 0
    /\ interval_var' = poll_interval
    /\ UNCHANGED <<poll_interval, notification_thresholds>>
    /\ SettingsFrame

decrease_interval ==
    /\ variant = "tk"
    /\ interval_var # 0
    /\ interval_var' = IF interval_var > 10 THEN interval_var - 10 ELSE interval_var
    /\ UNCHANGED <<poll_interval, notification_thresholds>>
    /\ SettingsFrame

increase_interval ==
    /\ variant = "tk"
    /\ interval_var # 0
    /\ interval_var' = IF interval_var < 300 THEN interval_var + 10 ELSE interval_var
    /\ UNCHANGED <<poll_interval, notification_thresholds>>
    /\ SettingsFrame

\* tk save_settings: the interval shown is stored; the thresholds text is parsed and
\* stored sorted, or left as it was when it does not parse; the window closes.
\* Without plyer the text is the fixed "80, 95, 99, 100".
save_settings(text) ==
    /\ variant = "tk"
    /\ interval_var # 0
    /\ poll_interval' = interval_var
    /\ notification_thresholds' =
           IF ~NOTIFICATIONS_AVAILABLE THEN <<80, 95, 99, 100>>
           ELSE IF text.parses THEN sorted(text.values) ELSE notification_thresholds
    /\ interval_var' = 0
    /\ SettingsFrame

\* tk close_settings without saving.
close_settings ==
    /\ variant = "tk"
    /\ interval_var # 0
    /\ interval_var' = 0
    /\ UNCHANGED <<poll_interval, notification_thresholds>>
    /\ SettingsFrame

\* qt on_poll_change: the spin box (minimum 10, maximum 300) changed to v.
on_poll_change(v) ==
    /\ variant = "qt"
    /\ running
    /\ v \in 10..300
    /\ v # poll_interval
    /\ poll_interval' = v
    /\ UNCHANGED <<interval_var, notification_thresholds>>
    /\ SettingsFrame

\* ------------------------------------------------------ history variables
Util(data, limit_type) == IF limit_type = "weekly" THEN data.seven_day ELSE data.five_hour

\* Keys whose threshold the evaluated snapshot is below.
Dropped ==
    {Key(k, t) : <<k, t>> \in {p \in Kinds \X Range(notification_thresholds) :
                                 Util(usage_data, p[1]) < p[2]}}

\* Keys notified since the last evaluation that saw the utilization below them.
StreakFollows ==
    streak' = IF update_progress_qt /\ notifications_enabled
              THEN (streak \ Dropped) \cup Range(emitted')
              ELSE streak

RECURSIVE ThresholdsOf(_, _)
ThresholdsOf(keys, limit_type) ==
    IF keys = <<>> THEN <<>>
    ELSE IF Head(keys)[1] = limit_type
         THEN <<Head(keys)[2]>> \o ThresholdsOf(Tail(keys), limit_type)
         ELSE ThresholdsOf(Tail(keys), limit_type)

ScenarioOff == [pos |-> -1, log |-> <<>>]

\* The five-hour evaluated since start are a prefix of Scenario, under thresholds
\* [70, 90] with notifications enabled; log holds what each evaluation emitted.
ScenarioFollows ==
    scenario' =
        IF update_progress_qt
        THEN IF /\ scenario.pos \in 0..(Len(Scenario) - 1)
                /\ usage_data.five_hour = Scenario[scenario.pos + 1]
                /\ notifications_enabled
                /\ notification_thresholds = <<70, 90>>
             THEN [pos |-> scenario.pos + 1,
                   log |-> Append(scenario.log, ThresholdsOf(emitted', "5-hour"))]
             ELSE ScenarioOff
        ELSE IF \/ notification_thresholds' # notification_thresholds
                \/ notifications_enabled' # notifications_enabled
             THEN ScenarioOff
             ELSE scenario

\* What an answer is to the retry policy of the specification: an expired
\* credential, a rate limit, or a transient failure.
Class(r) == IF r = "401" THEN "auth" ELSE IF r = "429" THEN "rate" ELSE "transient"

InProgress(t) == th[t].pc \in {"org", "usage", "backoff"}

\* Per fetch invocation: the backoff delays taken and the failures met so far.
InvocationFollows(t, r) ==
    /\ delays' = [delays EXCEPT ![t] =
                     IF th'[t].pc = "backoff" /\ th[t].pc # "backoff"
                     THEN Append(@, th'[t].delay)
                     ELSE IF th'[t].pc \in {"org", "usage", "backoff", "returned"}
                     THEN @ ELSE <<>>]
    /\ fails' = [fails EXCEPT ![t] =
                    IF InProgress(t) /\ th[t].pc # "backoff" /\ r # "200"
                    THEN Append(@, Class(r))
                    ELSE IF th'[t].pc \in {"org", "usage", "backoff", "returned"}
                    THEN @ ELSE <<>>]

\* The outcome of the fetch that returned last.
LastCompletedFollows ==
    last_completed' =
        IF \E t \in Threads : th'[t].pc = "returned" /\ th[t].pc # "returned"
        THEN th'[CHOOSE t \in Threads : th'[t].pc = "returned" /\ th[t].pc # "returned"].outcome
        ELSE last_completed

History ==
    StreakFollows /\ UNCHANGED <<scenario, delays, fails, last_completed, pubHist, sideVars>>

\* ------------------------------------------------------------ specifications
InitHistory ==
    /\ streak = {}
    /\ scenario = [pos |-> 0, log |-> <<>>]
    /\ delays = [t \in Threads |-> <<>>]
    /\ fails = [t \in Threads |-> <<>>]
    /\ last_completed = "none"
    /\ completions = 0
    /\ done_at = [t \in Threads |-> 0]
    /\ published_at = 0
    /\ published_log = <<>>
    /\ evaluated_log = <<>>

\* The defaults of load_config and of __init__: interval 60, no cookie string stored,
\* no settings window, no timer, the dot in its initial grey.
InitSide ==
    /\ poll_interval = 60
    /\ interval_var = 0
    /\ cookie_string = "absent"
    /\ sent_cookie = None
    /\ update_timers = 0
    /\ status_dot = "initial"
    /\ status_ui_pending = 0

InitBase ==
    /\ usage_data = NoData
    /\ notifications_enabled = TRUE
    /\ notified_thresholds = {}
    /\ initial_thresholds_set = FALSE
    /\ last_five_hour_utilization = 0
    /\ last_weekly_utilization = 0
    /\ notification_sent = <<>>
    /\ now = 0
    /\ emitted = <<>>
    /\ evaluated = FALSE
    /\ api_status = "unknown"
    /\ last_api_error = None
    /\ polling_active = TRUE
    /\ running = TRUE
    /\ auth_error_pending = 0
    /\ session_key = "sk1"
    /\ th = [t \in Threads |->
                IF t \in {"poll", "initial"} THEN [Off EXCEPT !.pc = "spawned"] ELSE Off]
    /\ update_pending = 0
    /\ login_open = FALSE
    /\ start_pending = FALSE
    /\ usage_history = <<>>
    /\ prediction = NoPrediction
    /\ InitHistory

InitCommon ==
    /\ InitBase
    /\ InitSide

\* The qt tracker and its settings dialog, with the default thresholds.
InitTracker ==
    /\ variant = "qt"
    /\ notification_thresholds = <<70, 90>>
    /\ NOTIFICATIONS_AVAILABLE = FALSE
    /\ show_prediction = FALSE
    /\ InitCommon

NextTracker ==
    \/ (\E u5 \in FiveHourVals, u7 \in WeeklyVals : Publish(u5, u7)) /\ History
    \/ update_progress_qt /\ History
    \/ (\E idx \in 1..MaxThresholds, val \in SliderVals : slider_update(idx, val)) /\ History
    \/ (\E idx \in 1..MaxThresholds : remove_threshold(idx)) /\ History
    \/ add_threshold /\ History
    \/ (\E state \in BOOLEAN : update_notif_visibility(state)) /\ History

SpecTracker == InitTracker /\ [][NextTracker]_vars

\* The qt tracker evaluating successive snapshots under the default settings.
NextScenario ==
    \/ (\E u5 \in Range(Scenario), u7 \in WeeklyVals : Publish(u5, u7))
          /\ ScenarioFollows
          /\ UNCHANGED <<streak, delays, fails, last_completed, pubHist, sideVars>>
    \/ update_progress_qt /\ ScenarioFollows
          /\ UNCHANGED <<streak, delays, fails, last_completed, pubHist, sideVars>>

SpecScenario == InitTracker /\ [][NextScenario]_vars

\* The tk tracker, with the default thresholds.
InitTk ==
    /\ variant = "tk"
    /\ notification_thresholds = <<80, 95, 99, 100>>
    /\ NOTIFICATIONS_AVAILABLE \in BOOLEAN
    /\ show_prediction = FALSE
    /\ InitCommon

NextTk ==
    \/ (\E u5 \in TkVals, u7 \in TkVals : Publish(u5, u7)) /\ History
    \/ update_progress_tk /\ History
    \/ (\E d \in TickVals : Tick(d)) /\ History

SpecTk == InitTk /\ [][NextTk]_vars

\* The program started with a stored session key: __init__ has called start_polling.
InitFetch ==
    /\ variant \in {"qt", "tk"}
    /\ notification_thresholds = IF variant = "qt" THEN <<70, 90>> ELSE <<80, 95, 99, 100>>
    /\ NOTIFICATIONS_AVAILABLE = (variant = "tk")
    /\ show_prediction = FALSE
    /\ InitCommon

Quiet == UNCHANGED <<streak, scenario, pubHist, sideVars>>

\* One fetch invocation at a time, on the manual-refresh thread, while the polling
\* threads sleep.
NextFetch ==
    \/ manual_refresh /\ FetchFrame /\ InvocationFollows("manual", "200")
          /\ LastCompletedFollows /\ Quiet
    \/ begin_fetch("manual") /\ FetchFrame /\ InvocationFollows("manual", "200")
          /\ LastCompletedFollows /\ Quiet
    \/ \E r \in OrgAnswers :
          OrgResponse("manual", r) /\ FetchFrame /\ InvocationFollows("manual", r)
             /\ LastCompletedFollows /\ Quiet
    \/ \E r \in UsageAnswers, data \in Snapshots :
          UsageResponse("manual", r, data) /\ FetchFrame /\ InvocationFollows("manual", r)
             /\ LastCompletedFollows /\ Quiet
    \/ Wake("manual") /\ FetchFrame /\ InvocationFollows("manual", "200")
          /\ LastCompletedFollows /\ Quiet
    \/ publish("manual") /\ FetchFrame /\ InvocationFollows("manual", "200")
          /\ LastCompletedFollows /\ Quiet
    \/ (\E key \in Keys \cup {None} : on_session_change(key)) /\ FetchFrame
          /\ UNCHANGED <<delays, fails, last_completed>> /\ Quiet
    \/ logout /\ FetchFrame /\ UNCHANGED <<delays, fails, last_completed>> /\ Quiet
    \/ (\E accept \in BOOLEAN : handle_auth_error(accept))
          /\ UNCHANGED <<delays, fails, last_completed>> /\ Quiet

SpecFetch == InitFetch /\ [][NextFetch]_vars

\* The transport answers every request (15 s timeout at the latest) and every
\* backoff sleep ends.
TransportStep ==
    \/ \E r \in OrgAnswers :
          OrgResponse("manual", r) /\ FetchFrame /\ InvocationFollows("manual", r)
             /\ LastCompletedFollows /\ Quiet
    \/ \E r \in UsageAnswers, data \in Snapshots :
          UsageResponse("manual", r, data) /\ FetchFrame /\ InvocationFollows("manual", r)
             /\ LastCompletedFollows /\ Quiet
    \/ Wake("manual") /\ FetchFrame /\ InvocationFollows("manual", "200")
          /\ LastCompletedFollows /\ Quiet

FairFetch == InitFetch /\ [][NextFetch]_vars /\ WF_vars(TransportStep)

PollHistory == LastCompletedFollows /\ UNCHANGED <<delays, fails>> /\ Quiet

\* The answers and documents the concurrent runs draw from.
PollOrgAnswers == {"200", "401", "429", "Timeout"}
PollUsageAnswers == {"200", "500", "BadJson"}
PollSnapshots == {[five_hour |-> 60, seven_day |-> 60]}

\* Fewer than MaxConcurrent fetches are between their entry and their publication.
RoomToFetch == Cardinality({t \in Threads : InProgress(t) \/ th[t].pc = "returned"}) < MaxConcurrent

\* The polling loop, the initial fetch and manual refreshes running concurrently.
NextPoll ==
    \/ (\E t \in Threads : (RoomToFetch \/ ~polling_active) /\ poll_loop_check(t))
          /\ FetchFrame /\ PollHistory
    \/ (\E t \in Threads : RoomToFetch /\ begin_fetch(t)) /\ FetchFrame /\ PollHistory
    \/ (\E t \in Threads, r \in PollOrgAnswers : OrgResponse(t, r)) /\ FetchFrame /\ PollHistory
    \/ (\E t \in Threads, r \in PollUsageAnswers, data \in PollSnapshots :
            UsageResponse(t, r, data)) /\ FetchFrame /\ PollHistory
    \/ (\E t \in Threads : Wake(t)) /\ FetchFrame /\ PollHistory
    \/ (\E t \in Threads : publish(t)) /\ FetchFrame /\ PollHistory
    \/ manual_refresh /\ FetchFrame /\ PollHistory
    \/ quit_app /\ FetchFrame /\ PollHistory
    \/ (\E key \in Keys \cup {None} : on_session_change(key)) /\ FetchFrame /\ PollHistory
    \/ logout /\ FetchFrame /\ PollHistory
    \/ (\E accept \in BOOLEAN : handle_auth_error(accept)) /\ PollHistory

SpecPoll == InitFetch /\ [][NextPoll]_vars

\* ---- publication: concurrent fetches that succeed, and the UI thread
Completed(t) == th'[t].pc = "returned" /\ th[t].pc # "returned" /\ th'[t].data # NoData
Published(t) == th[t].pc = "returned" /\ th'[t].pc # "returned" /\ th[t].data # NoData

\* Snapshots are ranked in the order their fetches return.
PubFollows ==
    /\ completions' = IF \E t \in Threads : Completed(t) THEN completions + 1 ELSE completions
    /\ done_at' = [t \in Threads |->
                     IF Completed(t) THEN completions + 1
                     ELSE IF th'[t].pc = "returned" THEN done_at[t] ELSE 0]
    /\ published_at' = IF \E t \in Threads : Published(t)
                       THEN done_at[CHOOSE t \in Threads : Published(t)] ELSE published_at
    /\ published_log' = IF \E t \in Threads : Published(t)
                        THEN Append(published_log, done_at[CHOOSE t \in Threads : Published(t)])
                        ELSE published_log
    /\ UNCHANGED <<evaluated_log, streak, scenario, delays, fails, last_completed, sideVars>>

\* update_progress evaluates the snapshot usage_data holds.
EvalFollows ==
    /\ evaluated_log' = IF evaluated_log # <<>> /\ evaluated_log[Len(evaluated_log)] = published_at
                        THEN evaluated_log ELSE Append(evaluated_log, published_at)
    /\ UNCHANGED <<completions, done_at, published_at, published_log, streak, scenario,
                   delays, fails, last_completed, sideVars>>

StartedThreads == {"poll", "initial", "manual"}

NextPublish ==
    \/ (\E t \in StartedThreads : poll_loop_check(t)) /\ FetchFrame /\ PubFollows
    \/ (\E t \in StartedThreads : begin_fetch(t)) /\ FetchFrame /\ PubFollows
    \/ (\E t \in StartedThreads : OrgResponse(t, "200")) /\ FetchFrame /\ PubFollows
    \/ (\E t \in StartedThreads, data \in Snapshots :
            completions < MaxCompletions /\ UsageResponse(t, "200", data))
          /\ FetchFrame /\ PubFollows
    \/ (\E t \in StartedThreads : publish(t)) /\ FetchFrame /\ PubFollows
    \/ manual_refresh /\ FetchFrame /\ PubFollows
    \/ quit_app /\ FetchFrame /\ PubFollows
    \/ scheduled_update_progress /\ EvalFollows

SpecPublish == InitFetch /\ [][NextPublish]_vars

\* ---- one polling loop against every transport answer
LoopHistory == UNCHANGED <<histVars, sideVars>>

NextLoop ==
    \/ poll_loop_check("poll") /\ FetchFrame /\ LoopHistory
    \/ (\E r \in OrgAnswers : OrgResponse("poll", r)) /\ FetchFrame /\ LoopHistory
    \/ (\E r \in UsageAnswers, data \in PollSnapshots : UsageResponse("poll", r, data))
          /\ FetchFrame /\ LoopHistory
    \/ Wake("poll") /\ FetchFrame /\ LoopHistory
    \/ publish("poll") /\ FetchFrame /\ LoopHistory
    \/ quit_app /\ FetchFrame /\ LoopHistory
    \/ (\E key \in Keys \cup {None} : on_session_change(key)) /\ FetchFrame /\ LoopHistory
    \/ logout /\ FetchFrame /\ LoopHistory
    \/ (\E accept \in BOOLEAN : handle_auth_error(accept)) /\ LoopHistory

SpecLoop == InitFetch /\ [][NextLoop]_vars

\* ---- sessions: start without or with a stored key, login, expiry, re-login
\* __init__: with a stored key start_polling has been called; without one the login
\* dialog is shown and no thread exists.
InitSession ==
    /\ variant \in {"qt", "tk"}
    /\ notification_thresholds = IF variant = "qt" THEN <<70, 90>> ELSE <<80, 95, 99, 100>>
    /\ NOTIFICATIONS_AVAILABLE = (variant = "tk")
    /\ show_prediction = FALSE
    /\ usage_data = NoData
    /\ notifications_enabled = TRUE
    /\ notified_thresholds = {}
    /\ initial_thresholds_set = FALSE
    /\ last_five_hour_utilization = 0
    /\ last_weekly_utilization = 0
    /\ notification_sent = <<>>
    /\ now = 0
    /\ emitted = <<>>
    /\ evaluated = FALSE
    /\ api_status = "unknown"
    /\ last_api_error = None
    /\ polling_active = TRUE
    /\ running = TRUE
    /\ auth_error_pending = 0
    /\ session_key \in Keys \cup {None}
    /\ th = [t \in Threads |->
                IF session_key # None /\ t \in {"poll", "initial"}
                THEN [Off EXCEPT !.pc = "spawned"] ELSE Off]
    /\ update_pending = 0
    /\ login_open = (session_key = None)
    /\ start_pending = FALSE
    /\ usage_history = <<>>
    /\ prediction = NoPrediction
    /\ InitSide
    /\ InitHistory

SessionOrgAnswers == {"200", "401"}
SessionThreads == Loops \cup Initials
SessionHistory == LastCompletedFollows /\ UNCHANGED <<delays, fails>> /\ Quiet

NextSession ==
    \/ (\E t \in SessionThreads : (RoomToFetch \/ ~polling_active) /\ poll_loop_check(t))
          /\ FetchFrame /\ SessionHistory
    \/ (\E t \in SessionThreads : RoomToFetch /\ begin_fetch(t)) /\ FetchFrame /\ SessionHistory
    \/ (\E t \in SessionThreads, r \in SessionOrgAnswers : OrgResponse(t, r))
          /\ FetchFrame /\ SessionHistory
    \/ (\E t \in SessionThreads, data \in PollSnapshots : UsageResponse(t, "200", data))
          /\ FetchFrame /\ SessionHistory
    \/ (\E t \in SessionThreads : Wake(t)) /\ FetchFrame /\ SessionHistory
    \/ (\E t \in SessionThreads : publish(t)) /\ FetchFrame /\ SessionHistory
    \/ (\E key \in FreshKeys : login_success(key)) /\ FetchFrame /\ SessionHistory
    \/ login_cancel /\ FetchFrame /\ SessionHistory
    \/ start_polling /\ FetchFrame /\ SessionHistory
    \/ quit_app /\ FetchFrame /\ SessionHistory
    \/ (\E accept \in BOOLEAN : handle_auth_error(accept)) /\ SessionHistory

SpecSession == InitSession /\ [][NextSession]_vars

\* Every thread is scheduled: one that can take a step again and again does.
ThreadStep(t) ==
    (((RoomToFetch \/ ~polling_active) /\ poll_loop_check(t))
       \/ (RoomToFetch /\ begin_fetch(t))
       \/ publish(t)
       \/ (\E r \in SessionOrgAnswers : OrgResponse(t, r))
       \/ (\E data \in PollSnapshots : UsageResponse(t, "200", data)))
    /\ FetchFrame /\ SessionHistory

\* The tk program started with a stored key, its polling threads being scheduled.
InitRelogin == InitSession /\ variant = "tk" /\ session_key \in Keys

\* In tk a 200 goes on and a 401 returns at once: no fetch of this cycle backs off.
NextRelogin ==
    \/ (\E t \in SessionThreads : (RoomToFetch \/ ~polling_active) /\ poll_loop_check(t))
          /\ FetchFrame /\ SessionHistory
    \/ (\E t \in SessionThreads : RoomToFetch /\ begin_fetch(t)) /\ FetchFrame /\ SessionHistory
    \/ (\E t \in SessionThreads, r \in SessionOrgAnswers : OrgResponse(t, r))
          /\ FetchFrame /\ SessionHistory
    \/ (\E t \in SessionThreads, data \in PollSnapshots : UsageResponse(t, "200", data))
          /\ FetchFrame /\ SessionHistory
    \/ (\E t \in SessionThreads : publish(t)) /\ FetchFrame /\ SessionHistory
    \/ (\E key \in FreshKeys : login_success(key)) /\ FetchFrame /\ SessionHistory
    \/ login_cancel /\ FetchFrame /\ SessionHistory
    \/ start_polling /\ FetchFrame /\ SessionHistory
    \/ quit_app /\ FetchFrame /\ SessionHistory
    \/ (\E accept \in BOOLEAN : handle_auth_error(accept)) /\ SessionHistory

FairRelogin ==
    InitRelogin /\ [][NextRelogin]_vars /\ \A t \in SessionThreads : SF_vars(ThreadStep(t))

\* ---- the settings windows: the poll interval, and the tk thresholds text
\* config.json is shared by the two programs (%APPDATA%/ClaudeUsageBar/config.json):
\* each can start from an interval the other stored.
StoredIntervals == {10, 15, 60, 295, 300}
SpinValues == {10, 15, 295, 300}
ThresholdTexts == {[parses |-> TRUE, values |-> <<95, 80>>],
                   [parses |-> TRUE, values |-> <<80, 95, 99, 100>>],
                   [parses |-> FALSE, values |-> <<>>]}

InitSettings ==
    /\ variant \in {"qt", "tk"}
    /\ notification_thresholds = IF variant = "qt" THEN <<70, 90>> ELSE <<80, 95, 99, 100>>
    /\ NOTIFICATIONS_AVAILABLE = (variant = "tk")
    /\ show_prediction = FALSE
    /\ InitBase
    /\ poll_interval \in StoredIntervals
    /\ interval_var = 0
    /\ cookie_string = "absent"
    /\ sent_cookie = None
    /\ update_timers = 0
    /\ status_dot = "initial"
    /\ status_ui_pending = 0

NextSettings ==
    \/ show_settings
    \/ decrease_interval
    \/ increase_interval
    \/ \E text \in ThresholdTexts : save_settings(text)
    \/ close_settings
    \/ \E v \in SpinValues : on_poll_change(v)

SpecSettings == InitSettings /\ [][NextSettings]_vars

\* ---- the cookie: what a request sends after logins and key changes
\* cookie_string = config.get('cookie_string', f'sessionKey={session_key}'): the
\* stored cookie string if there is one, else the session key itself.
CookieSent == IF cookie_string = "absent" THEN session_key ELSE cookie_string

\* A request went out in this step: its sessionKey cookie is recorded.
SentFollows ==
    sent_cookie' = IF \E t \in Threads : th'[t].pc = "org" /\ th[t].pc # "org"
                   THEN CookieSent ELSE sent_cookie

CookieHistory ==
    /\ LastCompletedFollows
    /\ SentFollows
    /\ UNCHANGED <<delays, fails, streak, scenario, pubHist, poll_interval, interval_var,
                   update_timers, status_dot, status_ui_pending>>

\* The program starts with what config.json holds: no key, a key typed into the
\* settings (no cookie string), or the key and cookie string of a browser login.
InitCookie ==
    /\ variant \in {"qt", "tk"}
    /\ notification_thresholds = IF variant = "qt" THEN <<70, 90>> ELSE <<80, 95, 99, 100>>
    /\ NOTIFICATIONS_AVAILABLE = (variant = "tk")
    /\ show_prediction = FALSE
    /\ usage_data = NoData
    /\ notifications_enabled = TRUE
    /\ notified_thresholds = {}
    /\ initial_thresholds_set = FALSE
    /\ last_five_hour_utilization = 0
    /\ last_weekly_utilization = 0
    /\ notification_sent = <<>>
    /\ now = 0
    /\ emitted = <<>>
    /\ evaluated = FALSE
    /\ api_status = "unknown"
    /\ last_api_error = None
    /\ polling_active = TRUE
    /\ running = TRUE
    /\ auth_error_pending = 0
    /\ session_key \in Keys \cup {None}
    /\ th = [t \in Threads |->
                IF session_key # None /\ t \in {"poll", "initial"}
                THEN [Off EXCEPT !.pc = "spawned"] ELSE Off]
    /\ update_pending = 0
    /\ login_open = (session_key = None)
    /\ start_pending = FALSE
    /\ usage_history = <<>>
    /\ prediction = NoPrediction
    /\ poll_interval = 60
    /\ interval_var = 0
    /\ cookie_string \in IF session_key = None THEN {"absent"} ELSE {"absent", session_key}
    /\ sent_cookie = None
    /\ update_timers = 0
    /\ status_dot = "initial"
    /\ status_ui_pending = 0
    /\ InitHistory

\* The login stores the cookie string with the key (qt auto_grab_session_key, tk
\* automated_browser_login); tk handle_auth_error sets both to None; the qt
\* settings change the key alone.
NextCookie ==
    \/ (\E t \in SessionThreads : (RoomToFetch \/ ~polling_active) /\ poll_loop_check(t))
          /\ FetchFrame /\ CookieHistory /\ UNCHANGED cookie_string
    \/ (\E t \in SessionThreads : RoomToFetch /\ begin_fetch(t))
          /\ FetchFrame /\ CookieHistory /\ UNCHANGED cookie_string
    \/ (\E t \in SessionThreads, r \in SessionOrgAnswers : OrgResponse(t, r))
          /\ FetchFrame /\ CookieHistory /\ UNCHANGED cookie_string
    \/ (\E t \in SessionThreads, data \in PollSnapshots : UsageResponse(t, "200", data))
          /\ FetchFrame /\ CookieHistory /\ UNCHANGED cookie_string
    \/ (\E t \in SessionThreads : Wake(t)) /\ FetchFrame /\ CookieHistory
          /\ UNCHANGED cookie_string
    \/ (\E t \in SessionThreads : publish(t)) /\ FetchFrame /\ CookieHistory
          /\ UNCHANGED cookie_string
    \/ (\E key \in FreshKeys : login_success(key) /\ cookie_string' = key)
          /\ FetchFrame /\ CookieHistory
    \/ login_cancel /\ FetchFrame /\ CookieHistory /\ UNCHANGED cookie_string
    \/ start_polling /\ FetchFrame /\ CookieHistory /\ UNCHANGED cookie_string
    \/ (\E key \in Keys \cup FreshKeys \cup {None} : on_session_change(key))
          /\ FetchFrame /\ CookieHistory /\ UNCHANGED cookie_string
    \/ (\E accept \in BOOLEAN :
            handle_auth_error(accept)
               /\ cookie_string' = IF accept THEN None ELSE cookie_string)
          /\ CookieHistory

SpecCookie == InitCookie /\ [][NextCookie]_vars

\* ---- the tk display timers
\* Every publication calls root.after(0, self.update_progress), and an
\* update_progress that finds usage_data ends with root.after(1000,
\* self.update_progress): the pending call it ran is replaced by a new one.
TimersFollow ==
    update_timers' = IF \E t \in Threads : Published(t)
                     THEN update_timers + 1 ELSE update_timers

TimerHistory ==
    /\ LastCompletedFollows
    /\ TimersFollow
    /\ UNCHANGED <<delays, fails, streak, scenario, pubHist, poll_interval, interval_var,
                   cookie_string, sent_cookie, status_dot, status_ui_pending>>

InitTimers == InitFetch /\ variant = "tk"

NextTimers ==
    \/ (\E t \in StartedThreads : poll_loop_check(t)) /\ FetchFrame /\ TimerHistory
    \/ (\E t \in StartedThreads : begin_fetch(t)) /\ FetchFrame /\ TimerHistory
    \/ (\E t \in StartedThreads : OrgResponse(t, "200")) /\ FetchFrame /\ TimerHistory
    \/ (\E t \in StartedThreads, data \in PollSnapshots : UsageResponse(t, "200", data))
          /\ FetchFrame /\ TimerHistory
    \/ (\E t \in StartedThreads : update_timers < MaxTimers /\ publish(t))
          /\ FetchFrame /\ TimerHistory
    \/ manual_refresh /\ FetchFrame /\ TimerHistory
    \/ quit_app /\ FetchFrame /\ TimerHistory
    \/ scheduled_update_progress /\ TimerHistory

SpecTimers == InitTimers /\ [][NextTimers]_vars

\* ---- the status dot: one fetch at a time and the refreshes it queues
StatusFollows(t, r) ==
    /\ status_ui_pending' = status_ui_pending + UiCallsQueued(t, r)
    /\ status_ui_pending' <= MaxDeferred
    /\ LastCompletedFollows
    /\ UNCHANGED <<status_dot, delays, fails, streak, scenario, pubHist, poll_interval,
                   interval_var, cookie_string, sent_cookie, update_timers>>

StatusOrgAnswers == {"200", "401", "500", "Timeout"}
StatusUsageAnswers == {"200", "500", "BadJson"}

NextStatus ==
    \/ manual_refresh /\ FetchFrame /\ StatusFollows("manual", "200")
    \/ begin_fetch("manual") /\ FetchFrame /\ StatusFollows("manual", "200")
    \/ \E r \in StatusOrgAnswers :
          OrgResponse("manual", r) /\ FetchFrame /\ StatusFollows("manual", r)
    \/ \E r \in StatusUsageAnswers, data \in PollSnapshots :
          UsageResponse("manual", r, data) /\ FetchFrame /\ StatusFollows("manual", r)
    \/ Wake("manual") /\ FetchFrame /\ StatusFollows("manual", "200")
    \/ publish("manual") /\ FetchFrame /\ StatusFollows("manual", "200")
    \/ (\E key \in Keys \cup {None} : on_session_change(key)) /\ FetchFrame
          /\ StatusFollows("manual", "200")
    \/ logout /\ FetchFrame /\ StatusFollows("manual", "200")
    \/ (\E accept \in BOOLEAN : handle_auth_error(accept)) /\ StatusFollows("manual", "200")
    \/ update_api_status_ui

SpecStatus == InitFetch /\ [][NextStatus]_vars

\* ---- the predictor: readings of the five-hour window as time passes
PredictVals == {10, 11, 20, 120}
ElapseVals == {150}

\* Time passes (the prediction clock runs to MaxClock).
Elapse(d) ==
    /\ now + d <= MaxClock
    /\ now' = now + d
    /\ emitted' = <<>>
    /\ UNCHANGED <<cfgVars, usage_data, qtVars, tkVars, evaluated, fetchVars, predVars>>

InitPredict ==
    /\ variant = "qt"
    /\ notification_thresholds = <<70, 90>>
    /\ NOTIFICATIONS_AVAILABLE = FALSE
    /\ show_prediction = TRUE
    /\ InitCommon

NextPredict ==
    \/ (\E u5 \in PredictVals : Publish(u5, 60)) /\ UNCHANGED <<histVars, sideVars>>
    \/ Len(Pruned(usage_history, now)) < MaxHistory /\ update_progress_qt
          /\ UNCHANGED <<histVars, sideVars>>
    \/ (\E d \in ElapseVals : Elapse(d)) /\ UNCHANGED <<histVars, sideVars>>

SpecPredict == InitPredict /\ [][NextPredict]_vars

\* ------------------------------------------------------------------ claims
ConfiguredKeys == Kinds \X Range(notification_thresholds)

NoDuplicates(s) == \A i, j \in 1..Len(s) : s[i] = s[j] => i = j

\* An entry holding the value t is edited or removed by this step.
EditsValue(t) ==
    \E idx \in 1..Len(notification_thresholds) :
        /\ notification_thresholds[idx] = t
        /\ \/ remove_threshold(idx)
           \/ \E val \in SliderVals : slider_update(idx, val)

\* C1 as stated: after the baseline, with notifications enabled, an evaluation
\* notifies (k, t) exactly when utilization >= t and (k, t) is not armed, and a key
\* once notified is not notified again before an evaluation has seen the
\* utilization below t.
C1_RenotifyOnlyAfterDrop ==
    [][update_progress_qt /\ notifications_enabled /\ evaluated =>
         \A key \in ConfiguredKeys :
             /\ key \in Range(emitted') <=>
                    (Util(usage_data, key[1]) >= key[2] /\ key \notin notified_thresholds)
             /\ key \in Range(emitted') => key \notin streak]_vars

\* C1 as amended: after the baseline, with notifications enabled, an evaluation
\* notifies (k, t), once, exactly when utilization >= t and (k, t) is not armed, and
\* arms it; an armed key stays armed, so is not notified again, until an evaluation
\* with utilization < t disarms it or a settings edit or removal of the value t
\* clears it.
C1_NotifyIffUnarmed ==
    [][/\ update_progress_qt /\ notifications_enabled /\ evaluated =>
            /\ NoDuplicates(emitted')
            /\ Range(emitted') \subseteq ConfiguredKeys
            /\ \A key \in ConfiguredKeys :
                   /\ key \in Range(emitted') <=>
                          (Util(usage_data, key[1]) >= key[2]
                             /\ key \notin notified_thresholds)
                   /\ key \in Range(emitted') => key \in notified_thresholds'
       /\ \A key \in notified_thresholds \ notified_thresholds' :
            \/ update_progress_qt /\ notifications_enabled
                  /\ Util(usage_data, key[1]) < key[2]
            \/ EditsValue(key[2])]_vars

C1_Witness ==
    /\ variant = "qt" /\ evaluated
    /\ \E key \in Range(emitted) : key \in notified_thresholds /\ key \in streak

\* C2: the first threshold evaluation after start emits no notification, whatever
\* the utilization; only later evaluations notify.
C2_FirstEvaluationSilent == [][~evaluated => emitted' = <<>>]_vars

\* C3: thresholds [70, 90] and five-hour evaluations 60, 75, 65, 95, 100 emit
\* nothing, notify(70), nothing, notify(70) and notify(90), nothing.
ScenarioExpected == << <<>>, <<70>>, <<>>, <<70, 90>>, <<>> >>

C3_ScenarioEmissions ==
    scenario.pos >= 0 => scenario.log = SubSeq(ScenarioExpected, 1, scenario.pos)

C3_Witness == scenario.pos = Len(Scenario)

\* C4 as stated: after a slider edit the entry's current value is unarmed for both
\* kinds, and after a removal the removed value is.
C4_EditedValueUnarmed ==
    [][\A idx \in 1..Len(notification_thresholds) :
          /\ \A val \in SliderVals :
                slider_update(idx, val) =>
                    \A k \in Kinds : Key(k, val) \notin notified_thresholds'
          /\ remove_threshold(idx) =>
                \A k \in Kinds :
                    Key(k, notification_thresholds[idx]) \notin notified_thresholds']_vars

\* C4 as amended: a slider edit or a removal clears, for both kinds, the armed state
\* of the value the entry held before, and leaves every other key as it was; so the
\* edited entry's new value is unarmed unless another entry of the same value had
\* armed it.
C4_EditClearsOldValue ==
    [][\A idx \in 1..Len(notification_thresholds) :
          (remove_threshold(idx) \/ \E val \in SliderVals : slider_update(idx, val)) =>
              /\ \A k \in Kinds :
                    Key(k, notification_thresholds[idx]) \notin notified_thresholds'
              /\ \A key \in notified_thresholds :
                    key[2] # notification_thresholds[idx] => key \in notified_thresholds'
              /\ notified_thresholds' \subseteq notified_thresholds]_vars

\* A key that was notified is unarmed and its value is no longer configured.
C4_Witness ==
    \E key \in streak :
        key \notin notified_thresholds /\ key[2] \notin Range(notification_thresholds)

\* -------------------------------------------------------------- fetch claims
\* A step of fetch_usage_data is taken as one atomic step from a response (or the
\* end of a sleep) to the next request, sleep or return; the write of the terminal
\* status and the return belong to one step.

Answered(t, r) ==
    /\ OrgResponse(t, r) \/ \E data \in Snapshots : UsageResponse(t, r, data)
    /\ fails'[t] = Append(fails[t], Class(r))
AllTransient(t) == \A i \in 1..Len(fails[t]) : fails[t][i] = "transient"
Idle == \A t \in Threads : ~InProgress(t)
Failed(outcome) == outcome \in {"Exhausted", "AuthExpired", "NoCredential"}

\* C5: an HTTP 401 from either endpoint returns an authentication-expired outcome
\* at once: no retry, no backoff delay.
C5_AuthFailsImmediately ==
    [][\A t \in Threads :
          Answered(t, "401") => th'[t].pc = "returned" /\ th'[t].outcome = "AuthExpired"]_vars

\* C6 as stated: three consecutive transient failures yield the delays 2, 4, 8 and
\* then the terminal error, with no further request.
C6_ThreeFailuresTerminal ==
    \A t \in Threads :
        Len(fails[t]) = 3 /\ AllTransient(t) =>
            /\ delays[t] = <<2, 4, 8>>
            /\ th[t].pc \in {"backoff", "returned"}
            /\ th[t].pc = "returned" => th[t].outcome \in {"Exhausted", "NoCredential"}

\* C6 amended: under transient failures the k-th retry is preceded by a delay of
\* base_delay * 2^(k-1), there are at most max_retries delays, and the terminal
\* error is surfaced exactly by the failure of the fourth attempt, after the delays
\* 2, 4, 8.
C6_FourFailuresTerminal ==
    \A t \in Threads :
        AllTransient(t) =>
            /\ delays[t] = [i \in 1..Len(delays[t]) |-> base_delay * Pow2(i - 1)]
            /\ Len(delays[t]) = IF Len(fails[t]) < max_retries THEN Len(fails[t]) ELSE max_retries
            /\ th[t].outcome = "Exhausted" <=> Len(fails[t]) = max_retries + 1
            /\ th[t].outcome = "Exhausted" => delays[t] = <<2, 4, 8>>

C6_Witness ==
    \E t \in Threads :
        th[t].outcome = "Exhausted" /\ AllTransient(t) /\ delays[t] = <<2, 4, 8>>

\* C7: after an HTTP 429 the delay before the retry is twice the standard one,
\* 2 * base_delay * 2^retry_attempt, and there are at most max_retries retries.
C7_RateLimitDoubled ==
    [][\A t \in Threads :
          Answered(t, "429") =>
              /\ th'[t].pc = "backoff" <=> th[t].attempt < max_retries
              /\ th'[t].pc = "backoff" => th'[t].delay = 2 * base_delay * Pow2(th[t].attempt)]_vars

\* C8: entered with no session key, at the first attempt or at a recursive retry,
\* the fetch returns the no-credential outcome at once with api_status 'error' and
\* last_api_error 'No session key': no request goes out and no delay is taken.
C8_NoCredentialReturnsAtOnce ==
    [][\A t \in Threads :
          session_key = None /\ (begin_fetch(t) \/ Wake(t) \/ (polling_active /\ poll_loop_check(t)))
             => /\ th'[t] = Returned("NoCredential", NoData)
                /\ api_status' = "error"
                /\ last_api_error' = "No session key"]_vars

C8_Witness ==
    \E t \in Threads :
        /\ th[t].outcome = "NoCredential"
        /\ Len(fails[t]) > 0
        /\ api_status = "error"
        /\ last_api_error = "No session key"

\* C9 as stated: api_status is 'ok' iff the fetch that completed last succeeded,
\* 'error' iff it failed terminally, and 'warning' only between retry attempts.
C9_StatusTracksLastFetch ==
    last_completed # "none" =>
        /\ api_status = "ok" <=> last_completed = "Success"
        /\ api_status = "error" <=> Failed(last_completed)
        /\ api_status = "warning" => \E t \in Threads : th[t].pc = "backoff"

\* C9 amended: while no fetch is in progress api_status is 'ok' if the fetch that
\* completed last succeeded and 'error' if it failed terminally; api_status is
\* 'warning' only while a fetch that has already failed an attempt is in progress.
C9_StatusWhenIdle ==
    /\ Idle /\ last_completed # "none" =>
           api_status = IF last_completed = "Success" THEN "ok" ELSE "error"
    /\ api_status = "warning" =>
           \E t \in Threads : InProgress(t) /\ (th[t].attempt > 0 \/ th[t].pc = "backoff")

C9_Witness == Idle /\ last_completed = "Exhausted" /\ api_status = "error"

C11_ResultDiscardedAfterStop ==
    [][\A l \in Loops :
          ~polling_active /\ th[l].data # NoData /\ publish(l)
             => usage_data' = usage_data /\ update_pending' = update_pending]_vars

NextIteration(l) ==
    \/ th[l].pc \in {"org", "exited"}
    \/ th[l].pc = "returned" /\ th[l].outcome = "NoCredential"

\* C12: a fetch that ends in auth-expired does not end the polling loop: the loop
\* goes to its sleep and on to its next iteration, it ends only when polling_active
\* is false, and an iteration that finds a session key stored sends its request.
C12_PollingSurvivesAuthExpiry ==
    /\ [][\A l \in Loops :
            /\ th[l].outcome = "AuthExpired" /\ th'[l] # th[l] => th'[l].pc = "sleep"
            /\ th'[l].pc = "exited" /\ th[l].pc # "exited" => ~polling_active
            /\ polling_active /\ session_key # None /\ poll_loop_check(l)
                  => th'[l].pc = "org"]_vars
    /\ \A l \in Loops : (th[l].outcome = "AuthExpired") ~> NextIteration(l)

C12_Witness ==
    /\ variant = "tk"
    /\ th["initial"].pc = "spawned"
    /\ session_key \in FreshKeys
    /\ th["poll"].outcome = "Success"

\* C13: a 401 answer triggers re-authentication and the stored credential is
\* invalidated by it.
C13_AuthInvalidatesCredential ==
    [][/\ \A t \in Threads :
             Answered(t, "401") => auth_error_pending' = auth_error_pending + 1
       /\ \A accept \in BOOLEAN : handle_auth_error(accept) => session_key' = None]_vars

AllPublished == \A t \in Threads : ~InProgress(t) /\ th[t].pc # "returned"
NonDecreasing(log) == \A i, j \in 1..Len(log) : i < j => log[i] <= log[j]

\* C14: snapshots are published in the order their fetches complete: when all have
\* been published usage_data holds the one that completed last, every published
\* snapshot has been evaluated once the queued updates have run, and evaluations
\* never go back to an older snapshot.
C14_PublicationInCompletionOrder ==
    /\ AllPublished /\ completions > 0 => published_at = completions
    /\ AllPublished /\ update_pending = 0 /\ variant = "qt"
          => Range(published_log) \subseteq Range(evaluated_log)
    /\ NonDecreasing(evaluated_log)

\* C15: whatever the transport answers, at any attempt, the fetch goes on to its
\* next request, a backoff sleep or a return; a returned fetch is followed by the
\* loop's sleep, the sleep by the next iteration, and the loop ends only when
\* polling_active is false.
C15_EveryOutcomeKeepsLooping ==
    [][/\ \A r \in OrgAnswers :
             OrgResponse("poll", r) => th'["poll"].pc \in {"usage", "backoff", "returned"}
       /\ \A r \in UsageAnswers, data \in PollSnapshots :
             UsageResponse("poll", r, data) => th'["poll"].pc \in {"backoff", "returned"}
       /\ th["poll"].pc = "returned" /\ th'["poll"] # th["poll"] => th'["poll"].pc = "sleep"
       /\ th["poll"].pc = "sleep" /\ polling_active /\ th'["poll"] # th["poll"]
             => th'["poll"].pc \in {"org", "returned"}
       /\ th'["poll"].pc = "exited" /\ th["poll"].pc # "exited" => ~polling_active]_vars

C15_Witness ==
    /\ th["poll"].pc = "org"
    /\ th["poll"].attempt = 0
    /\ api_status = "error"
    /\ last_api_error \in {"Timeout", "Failed after 3 retries"}

\* ------------------------------------------------------ predictor claims
Predicts == update_progress_qt /\ show_prediction
InWindow == {i \in 1..Len(usage_history) : usage_history[i][1] > now - 1800}
OldestRetained ==
    IF InWindow = {} THEN <<now, usage_data.five_hour>>
    ELSE usage_history[CHOOSE i \in InWindow : \A j \in InWindow : i <= j]

\* C16: a prediction equals (100 - current) / rate with rate = (current - oldest
\* utilization) / (now - oldest time), oldest being the oldest sample kept after
\* pruning; samples (0, 10) and (150, 20) give 1200 seconds at t = 150.
C16_PredictionFormula ==
    [][Predicts /\ prediction' # NoPrediction =>
          /\ prediction'.num = (100 - usage_data.five_hour) * (now - OldestRetained[1])
          /\ prediction'.den = usage_data.five_hour - OldestRetained[2]
          /\ usage_history' = << <<0, 10>>, <<150, 20>> >>
                => prediction'.num = 1200 * prediction'.den]_vars

C16_Witness ==
    /\ usage_history = << <<0, 10>>, <<150, 20>> >>
    /\ now = 150
    /\ prediction = [num |-> 12000, den |-> 10]

NoPredictionCase(history, t, current) ==
    \/ Len(history) < 2
    \/ t - history[1][1] < 120
    \/ current <= history[1][2]
    \/ current >= 100
    \/ (100 - current) * (t - history[1][1]) > 18000 * (current - history[1][2])

\* C17: no prediction is returned exactly when, after the append, fewer than 2
\* samples are kept, or the span is under 120 s, or utilization has not risen, or
\* it is at 100 or more, or the extrapolation exceeds 18000 s; otherwise the
\* prediction is positive and at most 18000 s.
C17_NoPredictionIff ==
    [][Predicts =>
          /\ prediction' = NoPrediction
                <=> NoPredictionCase(usage_history', now, usage_data.five_hour)
          /\ prediction' # NoPrediction
                => /\ prediction'.num > 0
                   /\ prediction'.den > 0
                   /\ prediction'.num <= 18000 * prediction'.den]_vars

C17_Witness ==
    /\ Len(usage_history) >= 2
    /\ usage_history[Len(usage_history)][1] = now
    /\ prediction = NoPrediction
    /\ now - usage_history[1][1] >= 120
    /\ usage_history[Len(usage_history)][2] > usage_history[1][2]
    /\ usage_history[Len(usage_history)][2] < 100

\* C18: after a call at time now every sample kept is newer than now - 1800, the
\* newest is (now, current utilization), timestamps do not decrease, and the old
\* samples are pruned before the new one is appended: what is kept is the old
\* samples inside the window, in their order, then the new one.
C18_HistoryWindow ==
    [][Predicts =>
          /\ \A i \in 1..Len(usage_history') : usage_history'[i][1] > now - 1800
          /\ usage_history'[Len(usage_history')] = <<now, usage_data.five_hour>>
          /\ \A i, j \in 1..Len(usage_history') :
                i < j => usage_history'[i][1] <= usage_history'[j][1]
          /\ Len(usage_history') = Cardinality(InWindow) + 1
          /\ \A i \in 1..(Len(usage_history') - 1) :
                usage_history'[i] = usage_history[i + Len(usage_history) - Cardinality(InWindow)]]_vars

C18_Witness ==
    /\ now >= 1800
    /\ Len(usage_history) = 2
    /\ usage_history[1][1] > 0
    /\ usage_history[2][1] = now

\* C19: the utilization update_progress hands on (here: to the predictor) lies in
\* [0, 100].
C19_UtilizationClamped ==
    \A i \in 1..Len(usage_history) : usage_history[i][2] \in 0..100

\* C20 as stated: no polling loop is started and no request is sent while no
\* session key is configured.
C20_NoPollingWithoutKey ==
    [][/\ start_polling => session_key # None
       /\ \A t \in Threads : th'[t].pc = "org" /\ th[t].pc # "org" => session_key # None]_vars

\* ------------------------------------------------------ settings claims
Ascending(s) == \A i, j \in 1..Len(s) : i < j => s[i] <= s[j]

\* C21: whatever thresholds are added, edited or removed, starting from an
\* ascending list, notification_thresholds is in ascending order.
C21_ThresholdsAscending == Ascending(notification_thresholds)

\* ------------------------------------------------------ tracker claims, continued
OfOtherKind(keys, limit_type) == {key \in keys : key[1] # limit_type}
CheckedNow(utilization, limit_type) ==
    check_and_notify(utilization, limit_type, [armed |-> notified_thresholds, sent |-> <<>>])

\* C23: in every state the qt tracker reaches, check_and_notify(u, kind) leaves the
\* armed keys of the other kind as they are and notifies only keys of its kind.
C23_KindsIndependent ==
    variant = "qt" =>
       \A utilization \in FiveHourVals \cup WeeklyVals, limit_type \in Kinds :
          /\ OfOtherKind(CheckedNow(utilization, limit_type).armed, limit_type)
                = OfOtherKind(notified_thresholds, limit_type)
          /\ \A i \in 1..Len(CheckedNow(utilization, limit_type).sent) :
                CheckedNow(utilization, limit_type).sent[i][1] = limit_type

\* Both kinds under the same threshold 70, five-hour armed at 95 and weekly not at 60.
C23_Witness ==
    /\ variant = "qt"
    /\ evaluated
    /\ notifications_enabled
    /\ 70 \in Range(notification_thresholds)
    /\ usage_data # NoData
    /\ usage_data.five_hour = 95 /\ usage_data.seven_day = 60
    /\ Key("5-hour", 70) \in notified_thresholds
    /\ Key("weekly", 70) \notin notified_thresholds

\* C30: in the qt tracker, after check_and_notify(u, kind) with notifications
\* enabled, for every configured threshold t the key (kind, t) is armed if and only
\* if u >= t; and every armed key is of a threshold that is in the configured list.
C30_ArmedIffReached ==
    variant = "qt" =>
       /\ notifications_enabled =>
             \A utilization \in FiveHourVals \cup WeeklyVals, limit_type \in Kinds :
                \A threshold \in Range(notification_thresholds) :
                   Key(limit_type, threshold) \in CheckedNow(utilization, limit_type).armed
                      <=> utilization >= threshold
       /\ \A key \in notified_thresholds : key[2] \in Range(notification_thresholds)

C30_Witness ==
    /\ variant = "qt"
    /\ evaluated
    /\ notifications_enabled
    /\ notification_thresholds = <<70, 90>>
    /\ usage_data # NoData /\ usage_data.five_hour = 60 /\ usage_data.seven_day = 75
    /\ notified_thresholds = {Key("weekly", 70)}
    /\ emitted = <<>>

TkKinds == {"five_hour", "weekly"}
Count(seq, key) == Cardinality({i \in 1..Len(seq) : seq[i] = key})
PrevUtil(limit_type) ==
    IF limit_type = "five_hour" THEN last_five_hour_utilization ELSE last_weekly_utilization
Crossing(limit_type, threshold) ==
    PrevUtil(limit_type) < threshold /\ threshold <= Util(usage_data, limit_type)
InCooldown(key) ==
    key \in DOMAIN notification_sent /\ now - notification_sent[key] < notification_cooldown

C22_PollIntervalInRange == poll_interval \in 10..300

\* ------------------------------------------------------ scheduler claims, continued
RunningLoops == {l \in Loops : th[l].pc \notin {"off", "exited"}}

\* C25: at most one polling loop is running at any time.
C25_AtMostOneLoop == Cardinality(RunningLoops) <= 1

\* ------------------------------------------------------ fetch claims, continued
\* C26: a fetch makes at most 4 attempts (retry_attempt, the recursion depth less
\* one, never exceeds 3) with at most 3 backoff delays, whatever the answers, and
\* it returns.
C26_FetchBounded ==
    /\ [](\A t \in Threads :
             /\ th[t].attempt <= max_retries
             /\ Len(delays[t]) <= max_retries
             /\ Len(fails[t]) <= max_retries + 1)
    /\ (InProgress("manual") ~> th["manual"].pc = "returned")

\* A fetch ended by its fourth failure, rate limits and other failures mixed.
C26_Witness ==
    /\ th["manual"].pc = "returned"
    /\ th["manual"].outcome = "Exhausted"
    /\ Len(fails["manual"]) = max_retries + 1
    /\ Len(delays["manual"]) = max_retries
    /\ {"rate", "transient"} \subseteq Range(fails["manual"])

\* C27: every request carries the session key that is stored when it is sent.
C27_CookieIsStoredKey ==
    [][\A t \in Threads :
          th'[t].pc = "org" /\ th[t].pc # "org" => sent_cookie' = session_key]_vars

\* C28: in tk at most one self-rescheduling update_progress timer is pending.
C28_OneTimerChain == variant = "tk" => update_timers <= 1

\* C29: once a fetch has ended and every queued update_api_status_ui has run, the
\* dot shows the current api_status (so it is not left at 'warning').
C29_DotShowsStatus ==
    /\ last_completed # "none"
    /\ ~InProgress("manual")
    /\ status_ui_pending = 0
    => status_dot = api_status

====
